---- MODULE Spec2Model ----
(***************************************************************************)
(* Static dependency graph engine of the Code Architecture Visualizer:     *)
(* CodeParser.parse_project (analyzers/code_parser.py), the singleton      *)
(* DependencyAnalyzer (analyzers/dependency_analyzer.py) and its export.   *)
(*                                                                         *)
(* Python values are modelled as follows.  None is the sentinel None, a    *)
(* string-valued dict entry that is not present is the sentinel Absent;    *)
(* neither is a string the program handles.  A dict read with .get lists   *)
(* the keys it holds in its field keys.  A path is a record                *)
(* [dir, stem, ext]; an ordered dict is a sequence of [path, data]         *)
(* entries in insertion order.                                             *)
(* The emoji prefix of the status messages is left out of the strings.     *)
(***************************************************************************)
EXTENDS Integers, Sequences, FiniteSets, TLC

None == "<None>"
Absent == "<absent>"

\* Number of analysis runs (parse_project followed by
\* analyze_import_relationships) performed on the singleton analyzer.
MaxRuns == 2

(***************************************************************************)
(* Sequence helpers.                                                       *)
(***************************************************************************)
Range(s) == {s[i] : i \in 1..Len(s)}

RECURSIVE Flatten(_)
Flatten(ss) == IF ss = <<>> THEN <<>> ELSE Head(ss) \o Flatten(Tail(ss))

(***************************************************************************)
(* The source tree: paths, files and their syntax trees.                   *)
(***************************************************************************)
PathOf(dir, stem, ext) == [dir |-> dir, stem |-> stem, ext |-> ext]

\* mutant: the extension is compared as written
Lower_AsWritten(ext) == ext

\* str.lower() on the extensions the model uses
Lower(ext) ==
    CASE ext = ".PY" -> ".py"
      [] ext = ".TXT" -> ".txt"
      [] OTHER -> ext

\* os.path.splitext(file)[1]
SplitExt(path) == path.ext

\* pathlib.Path(file_path).stem
Stem(path) == path.stem

\* an ast.alias
Alias(name, asname) == [name |-> name, asname |-> asname]

\* ast nodes: one record shape for every statement kind
ImportStmt(names, lineno) ==
    [kind |-> "Import", name |-> None, module |-> None, names |-> names,
     lineno |-> lineno, end_lineno |-> lineno, body |-> <<>>]
ImportFromStmt(module, names, lineno) ==
    [kind |-> "ImportFrom", name |-> None, module |-> module, names |-> names,
     lineno |-> lineno, end_lineno |-> lineno, body |-> <<>>]
DefStmt(kind, name, lineno, end_lineno, body) ==
    [kind |-> kind, name |-> name, module |-> None, names |-> <<>>,
     lineno |-> lineno, end_lineno |-> end_lineno, body |-> body]

\* a file on disk: readable as UTF-8 or not, syntactically valid or not
SourceFile(path, body, nlines) ==
    [path |-> path, readable |-> TRUE, valid |-> TRUE, body |-> body,
     nlines |-> nlines]
BrokenFile(path, readable) ==
    [path |-> path, readable |-> readable, valid |-> FALSE, body |-> <<>>,
     nlines |-> 1]

\* Files the analyzed trees are made of.  A.py imports B twice (a plain and
\* a from-import), B.py imports C and a third-party module, C.py closes the
\* cycle; the alternatives are a self-importing A.py and an unparsable B.py.
\* sub/A.py shares its stem with A.py; it holds a relative import
\* (from . import x: module is None), a package-qualified import and a
\* nested definition, or it cannot be decoded.
FileA == SourceFile(PathOf(<<>>, "A", ".py"),
            << ImportStmt(<<Alias("B", None)>>, 1),
               ImportFromStmt("B", <<Alias("x", None)>>, 2),
               DefStmt("FunctionDef", "f", 3, 4, <<>>) >>, 4)
FileASelf == SourceFile(PathOf(<<>>, "A", ".py"),
            << ImportStmt(<<Alias("A", None)>>, 1) >>, 1)
FileB == SourceFile(PathOf(<<>>, "B", ".py"),
            << ImportStmt(<<Alias("C", None), Alias("os", None)>>, 1) >>, 1)
FileBBroken == BrokenFile(PathOf(<<>>, "B", ".py"), TRUE)
FileC == SourceFile(PathOf(<<>>, "C", ".py"),
            << ImportStmt(<<Alias("A", "m")>>, 1),
               DefStmt("ClassDef", "K", 2, 3, <<>>) >>, 3)
FileNotes == SourceFile(PathOf(<<>>, "notes", ".txt"), <<>>, 2)
FileSubA == SourceFile(PathOf(<<"sub">>, "A", ".py"),
            << ImportFromStmt(None, <<Alias("x", None)>>, 1),
               ImportStmt(<<Alias("B", "b")>>, 2),
               ImportStmt(<<Alias("pkg.A", None)>>, 3),
               DefStmt("AsyncFunctionDef", "g", 4, 6,
                    << DefStmt("FunctionDef", "h", 5, 6, <<>>) >>) >>, 6)
FileSubABroken == BrokenFile(PathOf(<<"sub">>, "A", ".py"), FALSE)

\* files whose extension is written in capitals
FileDUpper == SourceFile(PathOf(<<>>, "D", ".PY"),
            << ImportStmt(<<Alias("A", None)>>, 1) >>, 1)
FileNotesUpper == SourceFile(PathOf(<<"sub">>, "notes", ".TXT"), <<>>, 1)

\* per Python file, the alternatives (<<>> : the file is not in the tree),
\* in the order os.walk lists the files (the root's files, then those of sub)
FileSlots ==
    << {<<>>, <<FileA>>, <<FileASelf>>},
       {<<>>, <<FileB>>, <<FileBBroken>>},
       {<<>>, <<FileC>>},
       {<<>>, <<FileSubA>>, <<FileSubABroken>>} >>

RECURSIVE Listings(_)
Listings(slots) ==
    IF slots = <<>> THEN {<<>>}
    ELSE {h \o t : h \in Head(slots), t \in Listings(Tail(slots))}

\* a root directory: an existing directory with its files in walk order, a
\* path that does not exist, a directory that cannot be listed, or a value
\* os.walk rejects (not a path)
Dir(files) == [kind |-> "dir", files |-> files]
MissingRoot == [kind |-> "missing", files |-> <<>>]
DeniedRoot == [kind |-> "denied", files |-> <<>>]
InvalidRoot == [kind |-> "invalid", files |-> <<>>]

\* the trees of Python files, a tree of unsupported files only, a mixed one
Roots == {Dir(fs) : fs \in Listings(FileSlots)}
            \cup {Dir(<<FileNotes>>), Dir(<<FileA, FileB, FileNotes>>)}
            \cup {MissingRoot, DeniedRoot, InvalidRoot}

(***************************************************************************)
(* CodeParser (analyzers/code_parser.py).                                  *)
(***************************************************************************)
supported_ext == {".py"}

\* ast.walk: breadth first, a level's statements before their bodies
RECURSIVE AstWalk(_)
AstWalk(stmts) ==
    IF stmts = <<>> THEN <<>>
    ELSE stmts \o AstWalk(Flatten([i \in 1..Len(stmts) |-> stmts[i].body]))

DefEntry(n) == [name |-> n.name, lineno |-> n.lineno, end_lineno |-> n.end_lineno]

StandardEntries(n) ==
    [i \in 1..Len(n.names) |->
        [module |-> n.names[i].name, name |-> Absent,
         alias |-> n.names[i].asname, line |-> n.lineno]]

FromEntries(n) ==
    [i \in 1..Len(n.names) |->
        [module |-> n.module, name |-> n.names[i].name,
         alias |-> n.names[i].asname, line |-> n.lineno]]

\* what the loop over ast.walk appends for one node
EntriesOf(n) ==
    CASE n.kind \in {"FunctionDef", "ClassDef"} -> <<DefEntry(n)>>
      [] n.kind = "Import" -> StandardEntries(n)
      [] n.kind = "ImportFrom" -> FromEntries(n)
      [] OTHER -> <<>>

\* the list that the nodes of one kind fill
Collect(nodes, kind) ==
    Flatten([i \in 1..Len(nodes) |->
        IF nodes[i].kind = kind THEN EntriesOf(nodes[i]) ELSE <<>>])

\* dict.get(key, default); the keys a dict holds are listed in its field keys
Get(d, key, default) == IF key \in d.keys THEN d[key] ELSE default

NoImports == [standard_imports |-> <<>>, from_imports |-> <<>>]

\* {"parsing_successful": False, "error": str(e)}: the fields that are not
\* in keys are not in the dict
FailedRecord(error) ==
    [keys |-> {"parsing_successful", "error"},
     parsing_successful |-> FALSE, error |-> error, functions |-> <<>>,
     classes |-> <<>>, imports |-> NoImports, source_lines |-> 0]

_parse_python_file(file) ==
    IF ~file.readable THEN FailedRecord("'utf-8' codec can't decode")
    ELSE IF ~file.valid THEN FailedRecord("invalid syntax")
    ELSE LET nodes == AstWalk(file.body) IN
         [keys |-> {"parsing_successful", "functions", "classes", "imports",
                    "source_lines", "source_code"},
          parsing_successful |-> TRUE,
          error |-> Absent,
          functions |-> Collect(nodes, "FunctionDef"),
          classes |-> Collect(nodes, "ClassDef"),
          imports |-> [standard_imports |-> Collect(nodes, "Import"),
                       from_imports |-> Collect(nodes, "ImportFrom")],
          source_lines |-> file.nlines]

\* os.walk(root_dir): the files it yields.  With the default onerror a root
\* that is missing or cannot be listed yields nothing and raises nothing.
OsWalk(root) == IF root.kind = "dir" THEN root.files ELSE <<>>

\* the {} returned on failure
EmptyDict == [keys |-> {}, parsed_files |-> <<>>, unsupported_files |-> <<>>]

MsgParsed == "All supported files parsed"
MsgParseError == "Parse error"

RECURSIVE WalkFiles(_, _)
WalkFiles(files, results) ==
    IF files = <<>> THEN results
    ELSE LET file == Head(files)
             ext == Lower(SplitExt(file.path))
         IN  WalkFiles(Tail(files),
                IF ext \in supported_ext
                THEN [results EXCEPT !.parsed_files =
                        Append(@, [path |-> file.path, data |-> _parse_python_file(file)])]
                ELSE [results EXCEPT !.unsupported_files = Append(@, file.path)])

\* returns the pair (results, message)
parse_project(root) ==
    IF root.kind = "invalid"
    THEN [results |-> EmptyDict, msg |-> MsgParseError]
    ELSE [results |-> WalkFiles(OsWalk(root),
                        [keys |-> {"parsed_files", "unsupported_files"},
                         parsed_files |-> <<>>, unsupported_files |-> <<>>]),
          msg |-> MsgParsed]

(***************************************************************************)
(* networkx.DiGraph as the analyzer uses it: the nodes in insertion order, *)
(* one attribute dict per node and one per ordered pair of nodes.          *)
(***************************************************************************)
EmptyMap == <<>>

EmptyGraph == [nodes |-> <<>>, node_attr |-> EmptyMap, edge_attr |-> EmptyMap]

Nodes(G) == Range(G.nodes)
Edges(G) == DOMAIN G.edge_attr

EmptyPath == PathOf(<<>>, "", "")

\* the attribute dict of a node that add_edge had to create
NoNodeAttr == [keys |-> {}, file_path |-> EmptyPath, functions |-> 0,
               classes |-> 0, source_lines |-> 0]

\* DiGraph.add_node(n, **attr): a new node is appended, a known one has its
\* attributes updated
add_node(G, n, attr) ==
    [G EXCEPT !.nodes = IF n \in Nodes(G) THEN @ ELSE Append(@, n),
              !.node_attr = (n :> (IF n \in Nodes(G)
                                   THEN [attr EXCEPT !.keys = @ \cup G.node_attr[n].keys]
                                   ELSE attr)) @@ @]

EnsureNode(G, n) == IF n \in Nodes(G) THEN G ELSE add_node(G, n, NoNodeAttr)

\* DiGraph.add_edge(u, v, **attr): missing endpoints are created, and the
\* attribute dict of an edge that exists is updated, not replaced: a key
\* the call does not pass (imported_name = Absent) keeps its old value
add_edge(G, u, v, attr) ==
    LET H == EnsureNode(EnsureNode(G, u), v)
        old == IF <<u, v>> \in Edges(G) THEN G.edge_attr[<<u, v>>].imported_name
               ELSE Absent
        new == IF attr.imported_name = Absent
               THEN [attr EXCEPT !.imported_name = old] ELSE attr
    IN  [H EXCEPT !.edge_attr = (<<u, v>> :> new) @@ @]

in_degree(G, n) == Cardinality({e \in Edges(G) : e[2] = n})
out_degree(G, n) == Cardinality({e \in Edges(G) : e[1] = n})

\* networkx.simple_cycles: the elementary circuits through the s-th node
\* that pass only through later nodes, each once, extending path
RECURSIVE CircuitsFrom(_, _, _)
CircuitsFrom(G, path, s) ==
    LET last == path[Len(path)]
        closing == IF <<last, G.nodes[s]>> \in Edges(G) THEN <<path>> ELSE <<>>
        further == [j \in 1..Len(G.nodes) |->
                      IF /\ j > s
                         /\ G.nodes[j] \notin Range(path)
                         /\ <<last, G.nodes[j]>> \in Edges(G)
                      THEN CircuitsFrom(G, Append(path, G.nodes[j]), s)
                      ELSE <<>>]
    IN  closing \o Flatten(further)

\* mutant: the circuits of a single node (self-loops) are left out
simple_cycles_NoSelfLoops(G) ==
    LET longer(c) == Len(c) > 1 IN
    SelectSeq(Flatten([s \in 1..Len(G.nodes) |-> CircuitsFrom(G, <<G.nodes[s]>>, s)]),
              longer)

simple_cycles(G) ==
    Flatten([s \in 1..Len(G.nodes) |-> CircuitsFrom(G, <<G.nodes[s]>>, s)])

(***************************************************************************)
(* DependencyAnalyzer (analyzers/dependency_analyzer.py).                  *)
(***************************************************************************)
\* DependencyAnalyzer.__init__
NewAnalyzer ==
    [dependency_graph |-> EmptyGraph,
     module_info |-> EmptyMap,
     external_dependencies |-> {},
     circular_dependencies |-> <<>>,
     orphaned_modules |-> <<>>]

Successful(entry) == Get(entry.data, "parsing_successful", FALSE)

\* first loop, one file: the module is mapped to its path, its node is
\* added and its module_info entry is set
\* mutant: module_info keeps the entry a module already has
RegisterModule_KeepsModuleInfo(st, entry) ==
    LET parse_data == entry.data
        file_path == entry.path
        module_name == Stem(file_path)
        functions == Get(parse_data, "functions", <<>>)
        classes == Get(parse_data, "classes", <<>>)
        source_lines == Get(parse_data, "source_lines", 0)
    IN  [st EXCEPT
            !.module_mapping = (module_name :> file_path) @@ @,
            !.file_to_module = (file_path :> module_name) @@ @,
            !.self.dependency_graph =
                add_node(@, module_name,
                    [keys |-> {"file_path", "functions", "classes", "source_lines"},
                     file_path |-> file_path,
                     functions |-> Len(functions),
                     classes |-> Len(classes),
                     source_lines |-> source_lines]),
            !.self.module_info =
                @ @@ (module_name :>
                    [file_path |-> file_path,
                     functions |-> functions,
                     classes |-> classes,
                     imports |-> Get(parse_data, "imports", NoImports),
                     metrics |-> [function_count |-> Len(functions),
                                  class_count |-> Len(classes),
                                  source_lines |-> source_lines]])]

RegisterModule(st, entry) ==
    LET parse_data == entry.data
        file_path == entry.path
        module_name == Stem(file_path)
        functions == Get(parse_data, "functions", <<>>)
        classes == Get(parse_data, "classes", <<>>)
        source_lines == Get(parse_data, "source_lines", 0)
    IN  [st EXCEPT
            !.module_mapping = (module_name :> file_path) @@ @,
            !.file_to_module = (file_path :> module_name) @@ @,
            !.self.dependency_graph =
                add_node(@, module_name,
                    [keys |-> {"file_path", "functions", "classes", "source_lines"},
                     file_path |-> file_path,
                     functions |-> Len(functions),
                     classes |-> Len(classes),
                     source_lines |-> source_lines]),
            !.self.module_info =
                (module_name :>
                    [file_path |-> file_path,
                     functions |-> functions,
                     classes |-> classes,
                     imports |-> Get(parse_data, "imports", NoImports),
                     metrics |-> [function_count |-> Len(functions),
                                  class_count |-> Len(classes),
                                  source_lines |-> source_lines]]) @@ @]

RECURSIVE RegisterModules(_, _)
RegisterModules(st, entries) ==
    IF entries = <<>> THEN st
    ELSE RegisterModules(
            IF Successful(Head(entries)) THEN RegisterModule(st, Head(entries)) ELSE st,
            Tail(entries))

StandardAttr(import_info) ==
    [import_type |-> "standard",
     line_number |-> import_info.line,
     alias |-> import_info.alias,
     imported_name |-> Absent]

FromAttr(import_info) ==
    [import_type |-> "from_import",
     imported_name |-> import_info.name,
     line_number |-> import_info.line,
     alias |-> import_info.alias]

\* one import of source_module: an edge when its module is a key of
\* module_mapping, an external dependency otherwise
EdgeAttr(import_info, import_type) ==
    IF import_type = "standard" THEN StandardAttr(import_info)
    ELSE FromAttr(import_info)

\* mutant: a module counts as internal when the graph has a node of its name
ResolveImport_ByGraphNodes(st, source_module, import_info, import_type) ==
    LET target_module == import_info.module IN
    IF target_module \in Nodes(st.self.dependency_graph)
    THEN [st EXCEPT
            !.self.dependency_graph =
                add_edge(@, source_module, target_module,
                         EdgeAttr(import_info, import_type)),
            !.dependency_count = @ + 1]
    ELSE [st EXCEPT !.self.external_dependencies = @ \cup {target_module}]

ResolveImport(st, source_module, import_info, import_type) ==
    LET target_module == import_info.module IN
    IF target_module \in DOMAIN st.module_mapping
    THEN [st EXCEPT
            !.self.dependency_graph =
                add_edge(@, source_module, target_module,
                         EdgeAttr(import_info, import_type)),
            !.dependency_count = @ + 1]
    ELSE [st EXCEPT !.self.external_dependencies = @ \cup {target_module}]

RECURSIVE ResolveImports(_, _, _, _)
ResolveImports(st, source_module, import_list, import_type) ==
    IF import_list = <<>> THEN st
    ELSE ResolveImports(
            ResolveImport(st, source_module, Head(import_list), import_type),
            source_module, Tail(import_list), import_type)

\* second loop, one file: its standard imports, then its from-imports
ResolveFile(st, entry) ==
    LET source_module == st.file_to_module[entry.path]
        imports_data == Get(entry.data, "imports", NoImports)
    IN  ResolveImports(
            ResolveImports(st, source_module, imports_data.standard_imports, "standard"),
            source_module, imports_data.from_imports, "from_import")

RECURSIVE ResolveFiles(_, _)
ResolveFiles(st, entries) ==
    IF entries = <<>> THEN st
    ELSE ResolveFiles(
            IF Successful(Head(entries)) THEN ResolveFile(st, Head(entries)) ELSE st,
            Tail(entries))

\* mutant: the cycles found are added to those of the earlier calls
_detect_circular_dependencies_Extend(self) ==
    [self EXCEPT !.circular_dependencies = @ \o simple_cycles(self.dependency_graph)]

_detect_circular_dependencies(self) ==
    [self EXCEPT !.circular_dependencies = simple_cycles(self.dependency_graph)]

\* mutant: only the incoming edges are looked at
IsOrphan_InDegreeOnly(G, node) == in_degree(G, node) = 0

IsOrphan(G, node) == in_degree(G, node) = 0 /\ out_degree(G, node) = 0

_identify_orphaned_modules(self) ==
    [self EXCEPT !.orphaned_modules =
        LET G == self.dependency_graph
            orphan(node) == IsOrphan(G, node)
        IN  SelectSeq(G.nodes, orphan)]

MsgAnalyzed == "Dependency graph analysis completed"

\* what the call returns; list(set) is kept as the set it lists, and the
\* graph, module_info and the two lists are the analyzer's own objects as
\* they are when the call returns
AnalysisResult(self, dependency_count) ==
    [graph |-> self.dependency_graph,
     module_info |-> self.module_info,
     external_dependencies |-> self.external_dependencies,
     circular_dependencies |-> self.circular_dependencies,
     orphaned_modules |-> self.orphaned_modules,
     summary |-> [total_modules |-> Len(self.dependency_graph.nodes),
                  total_dependencies |-> dependency_count,
                  external_count |-> Cardinality(self.external_dependencies),
                  circular_count |-> Len(self.circular_dependencies),
                  orphaned_count |-> Len(self.orphaned_modules)]]

\* the analyzer after the call, with the pair (result, message) returned
\* mutant: one loop, each file is registered and its imports are resolved
\* before the next file is looked at
RECURSIVE RegisterAndResolve(_, _)
RegisterAndResolve(st, entries) ==
    IF entries = <<>> THEN st
    ELSE RegisterAndResolve(
            IF Successful(Head(entries))
            THEN ResolveFile(RegisterModule(st, Head(entries)), Head(entries))
            ELSE st,
            Tail(entries))

analyze_import_relationships_SinglePass(self, parsing_results) ==
    LET entries == Get(parsing_results, "parsed_files", <<>>)
        st0 == [self |-> self, module_mapping |-> EmptyMap,
                file_to_module |-> EmptyMap, dependency_count |-> 0]
        st2 == RegisterAndResolve(st0, entries)
        done == _identify_orphaned_modules(_detect_circular_dependencies(st2.self))
    IN  [self |-> done,
         result |-> AnalysisResult(done, st2.dependency_count),
         msg |-> MsgAnalyzed]

analyze_import_relationships(self, parsing_results) ==
    LET entries == Get(parsing_results, "parsed_files", <<>>)
        st0 == [self |-> self, module_mapping |-> EmptyMap,
                file_to_module |-> EmptyMap, dependency_count |-> 0]
        st1 == RegisterModules(st0, entries)
        st2 == ResolveFiles(st1, entries)
        done == _identify_orphaned_modules(_detect_circular_dependencies(st2.self))
    IN  [self |-> done,
         result |-> AnalysisResult(done, st2.dependency_count),
         msg |-> MsgAnalyzed]

\* the two detection steps can raise inside their own try (memory running
\* out while the cycles are listed, say); the handler prints and returns,
\* and the field the step assigns is left as it was
AnalysisFaults == [cycles : BOOLEAN, orphans : BOOLEAN]

DetectCircularOrRaise(self, raises) ==
    IF raises THEN self ELSE _detect_circular_dependencies(self)

IdentifyOrphanedOrRaise(self, raises) ==
    IF raises THEN self ELSE _identify_orphaned_modules(self)

\* analyze_import_relationships in an environment where they do
AnalyzeUnderFaults(self, parsing_results, fault) ==
    LET entries == Get(parsing_results, "parsed_files", <<>>)
        st0 == [self |-> self, module_mapping |-> EmptyMap,
                file_to_module |-> EmptyMap, dependency_count |-> 0]
        st1 == RegisterModules(st0, entries)
        st2 == ResolveFiles(st1, entries)
        done == IdentifyOrphanedOrRaise(
                    DetectCircularOrRaise(st2.self, fault.cycles), fault.orphans)
    IN  [self |-> done,
         result |-> AnalysisResult(done, st2.dependency_count),
         msg |-> MsgAnalyzed]

(***************************************************************************)
(* DependencyAnalyzer.export_to_formats.                                   *)
(***************************************************************************)
JsonNode(G, node) ==
    LET data == G.node_attr[node] IN
    [id |-> node,
     file_path |-> Get(data, "file_path", EmptyPath),
     functions |-> Get(data, "functions", 0),
     classes |-> Get(data, "classes", 0),
     source_lines |-> Get(data, "source_lines", 0)]

\* mutant: an import without alias is written with alias ''
JsonEdge_AliasBlank(G, u, v) ==
    LET data == G.edge_attr[<<u, v>>] IN
    [source |-> u,
     target |-> v,
     import_type |-> data.import_type,
     line_number |-> data.line_number,
     imported_name |-> IF data.imported_name = Absent THEN "" ELSE data.imported_name,
     alias |-> IF data.alias = None THEN "" ELSE data.alias]

\* data.get('imported_name', '') and data.get('alias', ''): the alias key
\* is always set (to None when the import has no alias)
JsonEdge(G, u, v) ==
    LET data == G.edge_attr[<<u, v>>] IN
    [source |-> u,
     target |-> v,
     import_type |-> data.import_type,
     line_number |-> data.line_number,
     imported_name |-> IF data.imported_name = Absent THEN "" ELSE data.imported_name,
     alias |-> data.alias]

\* mutant: nodes without functions and classes are not exported
JsonNodes_OnlyDefining(G) ==
    LET defining(n) == G.node_attr[n].functions > 0 \/ G.node_attr[n].classes > 0
        kept == SelectSeq(G.nodes, defining)
    IN  [i \in 1..Len(kept) |-> JsonNode(G, kept[i])]

JsonNodes(G) == [i \in 1..Len(G.nodes) |-> JsonNode(G, G.nodes[i])]

\* G.edges(data=True): by source node in node order; the targets of one
\* source are listed in node order here
JsonEdges(G) ==
    Flatten([i \in 1..Len(G.nodes) |->
        Flatten([j \in 1..Len(G.nodes) |->
            IF <<G.nodes[i], G.nodes[j]>> \in Edges(G)
            THEN <<JsonEdge(G, G.nodes[i], G.nodes[j])>> ELSE <<>>])])

\* mutant: a None among the external dependencies is not exported
json_data_WithoutNone(self) ==
    [nodes |-> JsonNodes(self.dependency_graph),
     edges |-> JsonEdges(self.dependency_graph),
     external_dependencies |-> self.external_dependencies \ {None},
     circular_dependencies |-> self.circular_dependencies,
     orphaned_modules |-> self.orphaned_modules]

json_data(self) ==
    [nodes |-> JsonNodes(self.dependency_graph),
     edges |-> JsonEdges(self.dependency_graph),
     external_dependencies |-> self.external_dependencies,
     circular_dependencies |-> self.circular_dependencies,
     orphaned_modules |-> self.orphaned_modules]

\* json.dump and json.load: None is written as null and null is read as None;
\* strings and numbers are read back as written
JsonNull == "<null>"
JsonValue(v) == IF v = None THEN JsonNull ELSE v
PyValue(v) == IF v = JsonNull THEN None ELSE v

json_dump(data) ==
    [data EXCEPT
        !.edges = [i \in DOMAIN @ |-> [@[i] EXCEPT !.alias = JsonValue(@)]],
        !.external_dependencies = {JsonValue(x) : x \in @}]

json_load(doc) ==
    [doc EXCEPT
        !.edges = [i \in DOMAIN @ |-> [@[i] EXCEPT !.alias = PyValue(@)]],
        !.external_dependencies = {PyValue(x) : x \in @}]

\* networkx.adjacency_data(G)
adjacency_data(G) ==
    [directed |-> TRUE,
     multigraph |-> FALSE,
     nodes |-> [i \in 1..Len(G.nodes) |->
                    [id |-> G.nodes[i], attr |-> G.node_attr[G.nodes[i]]]],
     adjacency |-> [i \in 1..Len(G.nodes) |->
                    Flatten([j \in 1..Len(G.nodes) |->
                        IF <<G.nodes[i], G.nodes[j]>> \in Edges(G)
                        THEN << [id |-> G.nodes[j],
                                 attr |-> G.edge_attr[<<G.nodes[i], G.nodes[j]>>]] >>
                        ELSE <<>>])]]

\* the output directory of one session: the artifacts written so far
NoArtifacts ==
    [written |-> {}, json |-> json_dump(json_data(NewAnalyzer)),
     adjacency |-> adjacency_data(EmptyGraph)]

\* the steps of an export that the environment can make fail
ExportFaults == [makedirs : BOOLEAN, json : BOOLEAN, dot : BOOLEAN, adjacency : BOOLEAN]

MsgExported == "Export completed successfully"
MsgExportFailed == "Export failed"

ExportFailure(disk) == [disk |-> disk, exported_files |-> {}, ok |-> FALSE,
                        msg |-> MsgExportFailed]

\* mutant: the DOT write is not guarded, its failure fails the export
export_to_formats_DotMandatory(self, disk, fault) ==
    IF fault.makedirs \/ fault.json THEN ExportFailure(disk)
    ELSE
    LET d1 == [disk EXCEPT !.written = @ \cup {"json"},
                           !.json = json_dump(json_data(self))]
    IN  IF fault.dot THEN ExportFailure(d1)
        ELSE IF fault.adjacency
        THEN ExportFailure([d1 EXCEPT !.written = @ \cup {"dot"}])
        ELSE [disk |-> [d1 EXCEPT !.written = @ \cup {"dot", "adjacency"},
                                  !.adjacency = adjacency_data(self.dependency_graph)],
              exported_files |-> {"json", "dot", "adjacency"},
              ok |-> TRUE,
              msg |-> MsgExported]

\* the output directory after the call, with the pair returned: the keys of
\* exported_files (ok) or None (not ok), and the message
export_to_formats(self, disk, fault) ==
    IF fault.makedirs \/ fault.json THEN ExportFailure(disk)
    ELSE
    LET d1 == [disk EXCEPT !.written = @ \cup {"json"}, !.json = json_dump(json_data(self))]
        d2 == IF fault.dot THEN d1 ELSE [d1 EXCEPT !.written = @ \cup {"dot"}]
        f2 == IF fault.dot THEN {"json"} ELSE {"json", "dot"}
    IN  IF fault.adjacency THEN ExportFailure(d2)
        ELSE [disk |-> [d2 EXCEPT !.written = @ \cup {"adjacency"},
                                  !.adjacency = adjacency_data(self.dependency_graph)],
              exported_files |-> f2 \cup {"adjacency"},
              ok |-> TRUE,
              msg |-> MsgExported]

(***************************************************************************)
(* The other stage operations, by what they hand back: pair says whether   *)
(* the value returned is a (result, message) tuple, ok whether its result  *)
(* is not None.  raises is an exception inside the operation's try.        *)
(***************************************************************************)
Returned(name, pair, ok, msg) == [name |-> name, pair |-> pair, ok |-> ok, msg |-> msg]

MsgDiagrams == "Architecture diagrams created successfully"
MsgDiagramsFailed == "Diagram generation failed"
MsgScanned == "Security scan completed successfully"
MsgScanFailed == "Security scan failed"
MsgDocumented == "Documentation complete"
MsgDocumentationFailed == "Documentation failure"
MsgCharts == "Metrics dashboard created successfully"
MsgChartsFailed == "Metrics dashboard creation failed"

create_diagrams(results, raises) ==
    IF raises THEN Returned("Architecture Diagram", TRUE, FALSE, MsgDiagramsFailed)
    ELSE Returned("Architecture Diagram", TRUE, TRUE, MsgDiagrams)

comprehensive_security_scan(results, raises) ==
    IF raises THEN Returned("Security Scan", TRUE, FALSE, MsgScanFailed)
    ELSE Returned("Security Scan", TRUE, TRUE, MsgScanned)

generate_documentation(results, raises) ==
    IF raises THEN Returned("AI Documentation", TRUE, FALSE, MsgDocumentationFailed)
    ELSE Returned("AI Documentation", TRUE, TRUE, MsgDocumented)

\* os.makedirs can raise; then `if not parsed_files: return None`, a bare
\* None and no tuple
create_metrics_dashboard(results, raises) ==
    IF raises THEN Returned("Metrics Charts", TRUE, FALSE, MsgChartsFailed)
    ELSE IF Get(results, "parsed_files", <<>>) = <<>>
    THEN Returned("Metrics Charts", FALSE, FALSE, None)
    ELSE Returned("Metrics Charts", TRUE, TRUE, MsgCharts)

(***************************************************************************)
(* ProjectHelpers (utils/helpers.py) with the temporary directories that   *)
(* exist on disk.  tempfile.mkdtemp returns a new name each time: the      *)
(* directories are numbered in the order they are made.  abandoned is      *)
(* history: the directories of the calls that returned None.               *)
(***************************************************************************)
MaxDirs == 4

NewHelpers == [temp_directories |-> <<>>, disk |-> {}, made |-> 0,
               abandoned |-> {}, returned |-> None]

\* temp_dir = tempfile.mkdtemp(...); self.temp_directories.append(temp_dir)
MakeTracked(self) ==
    [self EXCEPT !.made = @ + 1,
                 !.disk = @ \cup {self.made + 1},
                 !.temp_directories = Append(@, self.made + 1)]

\* the call returns None: before it has made a directory, or leaving the
\* directory it has made
ReturnNone(self) == [self EXCEPT !.returned = "None"]
Abandon(self) == [self EXCEPT !.returned = "None", !.abandoned = @ \cup {self.made}]

ReturnDir(self) == [self EXCEPT !.returned = "temp_dir"]

Uploads == {None, "code.zip", "code.tar.gz", "code.tgz", "code.rar"}
Archives == {"code.zip", "code.tar.gz", "code.tgz"}
HelperFaults == {"none", "mkdtemp", "unpack"}

\* mutant: the directory is recorded after the archive has been unpacked
extract_codebase_TrackLate(self, file_upload, fault) ==
    IF file_upload = None \/ fault = "mkdtemp" THEN ReturnNone(self)
    ELSE LET made == [self EXCEPT !.made = @ + 1, !.disk = @ \cup {self.made + 1}] IN
         IF file_upload \in Archives /\ fault = "none"
         THEN ReturnDir([made EXCEPT !.temp_directories = Append(@, made.made)])
         ELSE Abandon(made)

extract_codebase(self, file_upload, fault) ==
    IF file_upload = None \/ fault = "mkdtemp" THEN ReturnNone(self)
    ELSE IF file_upload \in Archives /\ fault = "none"
    THEN ReturnDir(MakeTracked(self))
    ELSE Abandon(MakeTracked(self))

Urls == {None, "https://github.com/o/r", "git@github.com:o/r", "https://example.org/r"}
GithubUrls == {"https://github.com/o/r", "git@github.com:o/r"}

clone_repository(self, github_url, fault) ==
    IF github_url \notin GithubUrls \/ fault = "mkdtemp" THEN ReturnNone(self)
    ELSE IF fault = "none" THEN ReturnDir(MakeTracked(self))
    ELSE Abandon(MakeTracked(self))

\* the loop of cleanup_session over a copy of the list; rmtree raises at
\* the directory fails_at (0: at none), which ends the call with False
RECURSIVE CleanupLoop(_, _, _)
CleanupLoop(self, todo, fails_at) ==
    IF todo = <<>> THEN [self EXCEPT !.returned = "True"]
    ELSE LET temp_dir == Head(todo) IN
         IF temp_dir \notin self.disk THEN CleanupLoop(self, Tail(todo), fails_at)
         ELSE IF temp_dir = fails_at THEN [self EXCEPT !.returned = "False"]
         ELSE CleanupLoop(
                [self EXCEPT !.disk = @ \ {temp_dir},
                             !.temp_directories =
                                SelectSeq(@, LAMBDA d : d # temp_dir)],
                Tail(todo), fails_at)

cleanup_session(self, fails_at) == CleanupLoop(self, self.temp_directories, fails_at)

(***************************************************************************)
(* The state: the module-level singletons of app.py and one analysis run   *)
(* after the other on them.                                                *)
(***************************************************************************)
VARIABLES
    root,                \* the directory the current run parses
    parsing_results,     \* app.analyze_codebase: parse_project's result
    parse_msg,           \*   and message (None: not returned yet)
    dependency_analyzer, \* app.dependency_analyzer, the shared instance
    dep_result,          \* analyze_import_relationships's result
    dep_msg,             \*   and message (None: not returned yet)
    exported,            \* export_to_formats's return value
    artifacts,           \* the session's output directory
    stage,               \* where the current run is
    runs,                \* runs started so far
    stage_returns,       \* what the other stage operations of the run returned
    outcome,             \* how analyze_codebase ended (None: not yet)
    calls,               \* the locals of the invocations that run concurrently
    helpers              \* app.helpers with the temporary directories on disk

vars == <<root, parsing_results, parse_msg, dependency_analyzer, dep_result,
          dep_msg, exported, artifacts, stage, runs, stage_returns, outcome,
          calls, helpers>>

NoResult == AnalysisResult(NewAnalyzer, 0)

\* two invocations of analyze_codebase in two threads of the web server,
\* and the locals of one before it starts
Invocations == {"first", "second"}
NoLocals == [module_mapping |-> EmptyMap, file_to_module |-> EmptyMap,
             dependency_count |-> 0]
NotCalled == [pc |-> "idle", parsing_results |-> EmptyDict, next |-> 1,
              locals |-> NoLocals, result |-> NoResult]

NotExported == [exported_files |-> {}, ok |-> FALSE, msg |-> None]

Init ==
    /\ root = Dir(<<>>)
    /\ parsing_results = EmptyDict
    /\ parse_msg = None
    /\ dependency_analyzer = NewAnalyzer
    /\ dep_result = NoResult
    /\ dep_msg = None
    /\ exported = NotExported
    /\ artifacts = NoArtifacts
    /\ stage = "idle"
    /\ runs = 0
    /\ stage_returns = <<>>
    /\ outcome = None
    /\ calls = [p \in Invocations |-> NotCalled]
    /\ helpers = NewHelpers

\* a run starts: a new session directory, and parse_project(codebase_path)
ParseProject(r) ==
    /\ runs < MaxRuns
    /\ stage \in {"idle", "analyzed", "exported", "done"}
    /\ LET ret == parse_project(r) IN
        /\ parsing_results' = ret.results
        /\ parse_msg' = ret.msg
    /\ root' = r
    /\ dep_result' = NoResult
    /\ dep_msg' = None
    /\ exported' = NotExported
    /\ artifacts' = NoArtifacts
    /\ stage' = "parsed"
    /\ runs' = runs + 1
    /\ stage_returns' = <<>>
    /\ outcome' = None
    /\ UNCHANGED <<dependency_analyzer, calls, helpers>>

\* dependency_analyzer.analyze_import_relationships(parsing_results)
AnalyzeImportRelationships ==
    /\ stage = "parsed"
    /\ LET ret == analyze_import_relationships(dependency_analyzer, parsing_results) IN
        /\ dependency_analyzer' = ret.self
        /\ dep_result' = ret.result
        /\ dep_msg' = ret.msg
    /\ stage' = "analyzed"
    /\ UNCHANGED <<root, parsing_results, parse_msg, exported, artifacts, runs,
                   stage_returns, outcome, calls, helpers>>

\* dependency_analyzer.export_to_formats(artifacts_dir, session_id)
ExportToFormats(fault) ==
    /\ stage = "analyzed"
    /\ LET ret == export_to_formats(dependency_analyzer, artifacts, fault) IN
        /\ artifacts' = ret.disk
        /\ exported' = [exported_files |-> ret.exported_files, ok |-> ret.ok,
                        msg |-> ret.msg]
    /\ stage' = "exported"
    /\ UNCHANGED <<root, parsing_results, parse_msg, dependency_analyzer,
                   dep_result, dep_msg, runs, stage_returns, outcome, calls, helpers>>

Next ==
    \/ \E r \in Roots : ParseProject(r)
    \/ AnalyzeImportRelationships
    \/ \E fault \in ExportFaults : ExportToFormats(fault)

Spec == Init /\ [][Next]_vars

\* the same runs in an environment where the detection steps can raise
AnalyzeWithFaults(fault) ==
    /\ stage = "parsed"
    /\ LET ret == AnalyzeUnderFaults(dependency_analyzer, parsing_results, fault) IN
        /\ dependency_analyzer' = ret.self
        /\ dep_result' = ret.result
        /\ dep_msg' = ret.msg
    /\ stage' = "analyzed"
    /\ UNCHANGED <<root, parsing_results, parse_msg, exported, artifacts, runs,
                   stage_returns, outcome, calls, helpers>>

NextFaults ==
    \/ \E r \in Roots : ParseProject(r)
    \/ \E fault \in AnalysisFaults : AnalyzeWithFaults(fault)

SpecFaults == Init /\ [][NextFaults]_vars

(***************************************************************************)
(* analyze_codebase with its feature stages.  The selected features run in *)
(* the order of the code; `result, msg = operation(...)` raises TypeError  *)
(* when the operation returned no tuple, and the handler of                *)
(* analyze_codebase then ends the run with its error message.              *)
(***************************************************************************)
FeatureOrder == <<"Architecture Diagram", "Dependency Analysis", "Security Scan",
                  "AI Documentation", "Metrics Charts">>
Position(name) == CHOOSE i \in 1..Len(FeatureOrder) : FeatureOrder[i] = name

MsgComplete == "Analysis complete"
MsgRunFailed == "Analysis failed"

\* the feature is next: the run has not ended and no later feature has run
IsNext(name) ==
    /\ outcome = None
    /\ stage \in {"parsed", "analyzed"}
    /\ stage = "analyzed" => Position(name) > Position("Dependency Analysis")
    /\ \A i \in 1..Len(stage_returns) :
            Position(stage_returns[i].name) < Position(name)

\* result, msg = ret
Unpack(ret) ==
    /\ stage_returns' = Append(stage_returns, ret)
    /\ IF ret.pair
       THEN UNCHANGED <<stage, outcome>>
       ELSE stage' = "done" /\ outcome' = MsgRunFailed
    /\ UNCHANGED <<root, parsing_results, parse_msg, dependency_analyzer,
                   dep_result, dep_msg, exported, artifacts, runs, calls, helpers>>

CreateDiagrams(raises) ==
    /\ IsNext("Architecture Diagram")
    /\ Unpack(create_diagrams(parsing_results, raises))

AnalyzeDependencies ==
    /\ IsNext("Dependency Analysis")
    /\ AnalyzeImportRelationships

ComprehensiveSecurityScan(raises) ==
    /\ IsNext("Security Scan")
    /\ Unpack(comprehensive_security_scan(parsing_results, raises))

GenerateDocumentation(raises) ==
    /\ IsNext("AI Documentation")
    /\ Unpack(generate_documentation(parsing_results, raises))

CreateMetricsDashboard(raises) ==
    /\ IsNext("Metrics Charts")
    /\ Unpack(create_metrics_dashboard(parsing_results, raises))

\* return summary, combined_visuals, download_files
ReturnSummary ==
    /\ outcome = None
    /\ stage \in {"parsed", "analyzed"}
    /\ outcome' = MsgComplete
    /\ stage' = "done"
    /\ UNCHANGED <<root, parsing_results, parse_msg, dependency_analyzer, dep_result,
                   dep_msg, exported, artifacts, runs, stage_returns, calls, helpers>>

\* the trees the feature stages are run on: no file, no directory, files
\* that parse, a file that does not
PipelineRoots ==
    {Dir(<<>>), InvalidRoot, MissingRoot, Dir(<<FileA, FileB>>), Dir(<<FileBBroken>>)}

NextPipeline ==
    \/ \E r \in PipelineRoots : ParseProject(r)
    \/ \E raises \in BOOLEAN : CreateDiagrams(raises)
    \/ AnalyzeDependencies
    \/ \E raises \in BOOLEAN : ComprehensiveSecurityScan(raises)
    \/ \E raises \in BOOLEAN : GenerateDocumentation(raises)
    \/ \E raises \in BOOLEAN : CreateMetricsDashboard(raises)
    \/ ReturnSummary

SpecPipeline == Init /\ [][NextPipeline]_vars

(***************************************************************************)
(* Two invocations of analyze_codebase at the same time.  Each has its own *)
(* parsing_results and its own locals of analyze_import_relationships      *)
(* (module_mapping, file_to_module, dependency_count); both work on the    *)
(* one dependency_analyzer of the module.  A step is one iteration of one  *)
(* of the two loops, the two detection calls, or the return.               *)
(***************************************************************************)
Sequential == <<root, parsing_results, parse_msg, dep_result, dep_msg, exported,
                artifacts, stage, runs, stage_returns, outcome, helpers>>

EntriesIn(results) == Get(results, "parsed_files", <<>>)

\* the analyzer with the locals of invocation p, as the loops take them
Frame(p) == [self |-> dependency_analyzer,
             module_mapping |-> calls[p].locals.module_mapping,
             file_to_module |-> calls[p].locals.file_to_module,
             dependency_count |-> calls[p].locals.dependency_count]

\* the shared analyzer and the locals of p after a step that ends in st
Store(p, st, pc, next) ==
    /\ dependency_analyzer' = st.self
    /\ calls' = [calls EXCEPT ![p].pc = pc, ![p].next = next,
                              ![p].locals = [module_mapping |-> st.module_mapping,
                                             file_to_module |-> st.file_to_module,
                                             dependency_count |-> st.dependency_count]]
    /\ UNCHANGED Sequential

\* parse_project(codebase_path), then the call begins
CallParse(p, r) ==
    /\ calls[p].pc = "idle"
    /\ calls' = [calls EXCEPT ![p].pc = "register",
                              ![p].parsing_results = parse_project(r).results]
    /\ UNCHANGED <<dependency_analyzer, Sequential>>

\* one iteration of the first loop
CallRegister(p) ==
    /\ calls[p].pc = "register"
    /\ LET entries == EntriesIn(calls[p].parsing_results)
           i == calls[p].next
       IN  IF i > Len(entries) THEN Store(p, Frame(p), "resolve", 1)
           ELSE IF Successful(entries[i])
           THEN Store(p, RegisterModule(Frame(p), entries[i]), "register", i + 1)
           ELSE Store(p, Frame(p), "register", i + 1)

\* one iteration of the second loop
CallResolve(p) ==
    /\ calls[p].pc = "resolve"
    /\ LET entries == EntriesIn(calls[p].parsing_results)
           i == calls[p].next
       IN  IF i > Len(entries) THEN Store(p, Frame(p), "detect", 1)
           ELSE IF Successful(entries[i])
           THEN Store(p, ResolveFile(Frame(p), entries[i]), "resolve", i + 1)
           ELSE Store(p, Frame(p), "resolve", i + 1)

\* self._detect_circular_dependencies(); self._identify_orphaned_modules()
CallDetect(p) ==
    /\ calls[p].pc = "detect"
    /\ dependency_analyzer' =
            _identify_orphaned_modules(_detect_circular_dependencies(dependency_analyzer))
    /\ calls' = [calls EXCEPT ![p].pc = "return"]
    /\ UNCHANGED Sequential

\* the return statement: the result as it reads when the call returns
CallReturn(p) ==
    /\ calls[p].pc = "return"
    /\ calls' = [calls EXCEPT
            ![p].pc = "returned",
            ![p].result = AnalysisResult(dependency_analyzer,
                                         calls[p].locals.dependency_count)]
    /\ UNCHANGED <<dependency_analyzer, Sequential>>

\* the trees the two invocations are given
ConcurrentRoots == {Dir(<<>>), Dir(<<FileASelf>>), Dir(<<FileA, FileB>>),
                    Dir(<<FileB, FileC>>)}

NextConcurrent ==
    \E p \in Invocations :
        \/ \E r \in ConcurrentRoots : CallParse(p, r)
        \/ CallRegister(p)
        \/ CallResolve(p)
        \/ CallDetect(p)
        \/ CallReturn(p)

SpecConcurrent == Init /\ [][NextConcurrent]_vars

(***************************************************************************)
(* The calls on app.helpers: codebases are extracted and cloned, and the   *)
(* session is cleaned up, in any order.                                    *)
(***************************************************************************)
Others == <<root, parsing_results, parse_msg, dependency_analyzer, dep_result,
            dep_msg, exported, artifacts, stage, runs, stage_returns, outcome, calls>>

ExtractCodebase(file_upload, fault) ==
    /\ helpers.made < MaxDirs
    /\ helpers' = extract_codebase(helpers, file_upload, fault)
    /\ UNCHANGED Others

CloneRepository(github_url, fault) ==
    /\ helpers.made < MaxDirs
    /\ helpers' = clone_repository(helpers, github_url, fault)
    /\ UNCHANGED Others

CleanupSession(fails_at) ==
    /\ helpers' = cleanup_session(helpers, fails_at)
    /\ UNCHANGED Others

NextHelpers ==
    \/ \E file_upload \in Uploads, fault \in HelperFaults :
            ExtractCodebase(file_upload, fault)
    \/ \E github_url \in Urls, fault \in HelperFaults :
            CloneRepository(github_url, fault)
    \/ \E fails_at \in {0} \cup helpers.disk : CleanupSession(fails_at)

SpecHelpers == Init /\ [][NextHelpers]_vars

(***************************************************************************)
(* The runs of Spec over trees that mix supported and unsupported files,   *)
(* extensions in capitals and files that do not parse.                     *)
(***************************************************************************)
MixedRoots ==
    {Dir(<<>>), MissingRoot, InvalidRoot,
     Dir(<<FileA, FileNotes>>),
     Dir(<<FileDUpper>>),
     Dir(<<FileA, FileDUpper, FileNotesUpper>>),
     Dir(<<FileBBroken, FileDUpper, FileNotes>>),
     Dir(<<FileA, FileB, FileNotes, FileSubABroken, FileNotesUpper>>),
     Dir(<<FileNotes, FileNotesUpper>>),
     Dir(<<FileB, FileDUpper>>),
     Dir(<<FileC, FileNotesUpper>>)}

NextMixed ==
    \/ \E r \in MixedRoots : ParseProject(r)
    \/ AnalyzeImportRelationships

SpecMixed == Init /\ [][NextMixed]_vars

(***************************************************************************)
(* Vocabulary of the properties.                                           *)
(***************************************************************************)
Analyzed == dep_msg # None
Parsed == parse_msg # None

\* the records of the current run, and the successfully parsed ones
Entries == Get(parsing_results, "parsed_files", <<>>)
SuccessfulEntries == {i \in 1..Len(Entries) : Entries[i].data.parsing_successful}
FailedEntries == {i \in 1..Len(Entries) : ~Entries[i].data.parsing_successful}

\* the import entries of one record, standard imports first
ImportEntries(data) == data.imports.standard_imports \o data.imports.from_imports

\* how many import entries of the records of module a name module b
ImportCount(a, b) ==
    Cardinality(UNION {
        {<<i, k>> : k \in {k \in 1..Len(ImportEntries(Entries[i].data)) :
                                ImportEntries(Entries[i].data)[k].module = b}} :
        i \in {i \in SuccessfulEntries : Stem(Entries[i].path) = a}})

\* how many edges a -> b a graph holds, and how many an exported array lists
EdgeCount(G, a, b) == Cardinality({e \in Edges(G) : e = <<a, b>>})
ListedCount(edges, a, b) ==
    Cardinality({i \in 1..Len(edges) : edges[i].source = a /\ edges[i].target = b})

JsonWritten == "json" \in artifacts.written

\* c is a simple cycle of G: no node twice, every step and the closing one
\* is an edge
IsSimpleCycle(G, c) ==
    /\ Len(c) >= 1
    /\ \A i \in 1..Len(c) : c[i] \in Nodes(G)
    /\ \A i, j \in 1..Len(c) : c[i] = c[j] => i = j
    /\ \A i \in 1..Len(c) : <<c[i], c[(i % Len(c)) + 1]>> \in Edges(G)

AllSimpleCycles(G) ==
    {c \in UNION {[1..k -> Nodes(G)] : k \in 1..Cardinality(Nodes(G))} :
        IsSimpleCycle(G, c)}

\* d is c read from another of its nodes on
RotationEquivalent(c, d) ==
    /\ Len(c) = Len(d)
    /\ \E k \in 0..(Len(c) - 1) :
            \A i \in 1..Len(c) : d[i] = c[((i - 1 + k) % Len(c)) + 1]

Triangle == {<<"A", "B">>, <<"B", "C">>, <<"C", "A">>}

\* the files of the current root that parse_project treats as supported
Supported(file) == Lower(SplitExt(file.path)) \in supported_ext

(***************************************************************************)
(* C1  No dangling edges: after any sequence of                            *)
(* analyze_import_relationships calls every edge of dependency_graph has   *)
(* its source and its target among the nodes, and in the JSON that         *)
(* export_to_formats writes every edge's source and target is the id of    *)
(* an exported node.                                                       *)
(***************************************************************************)
C1_NoDanglingEdges ==
    /\ \A e \in Edges(dependency_analyzer.dependency_graph) :
            /\ e[1] \in Nodes(dependency_analyzer.dependency_graph)
            /\ e[2] \in Nodes(dependency_analyzer.dependency_graph)
    /\ JsonWritten =>
        LET ids == {artifacts.json.nodes[i].id : i \in 1..Len(artifacts.json.nodes)} IN
        \A i \in 1..Len(artifacts.json.edges) :
            /\ artifacts.json.edges[i].source \in ids
            /\ artifacts.json.edges[i].target \in ids

\* an export after the second run whose JSON lists three edges or more, a
\* self-loop among them
C1_Witness ==
    /\ runs = 2
    /\ JsonWritten
    /\ Len(artifacts.json.edges) >= 3
    /\ \E i \in 1..Len(artifacts.json.edges) :
            artifacts.json.edges[i].source = artifacts.json.edges[i].target

(***************************************************************************)
(* C2  Every import that resolves to an internal module keeps an edge of   *)
(* its own: for all modules a and b the number of edges a -> b in the      *)
(* built graph, and in the exported edges array, is the number of import   *)
(* entries of a's record that name b.  Stated for the first run of a new   *)
(* analyzer, where the graph holds nothing of an earlier run.              *)
(***************************************************************************)
C2_EveryImportKeepsItsEdge ==
    (Analyzed /\ runs = 1) =>
        \A a, b \in Nodes(dep_result.graph) :
            /\ EdgeCount(dep_result.graph, a, b) = ImportCount(a, b)
            /\ JsonWritten =>
                ListedCount(artifacts.json.edges, a, b) = ImportCount(a, b)

(***************************************************************************)
(* C3  No state carries over between runs: what a call of                  *)
(* analyze_import_relationships on the shared analyzer returns (nodes,     *)
(* edges, external_dependencies, circular_dependencies, orphaned_modules)  *)
(* is what a newly constructed analyzer returns for the same input.        *)
(***************************************************************************)
C3_NoCarryOver ==
    Analyzed =>
        LET fresh == analyze_import_relationships(NewAnalyzer, parsing_results).result IN
        /\ dep_result.graph = fresh.graph
        /\ dep_result.external_dependencies = fresh.external_dependencies
        /\ dep_result.circular_dependencies = fresh.circular_dependencies
        /\ dep_result.orphaned_modules = fresh.orphaned_modules

(***************************************************************************)
(* C4  External-set disjointness: in every state no element of             *)
(* external_dependencies is the id of a node of dependency_graph.          *)
(***************************************************************************)
C4_ExternalDisjoint ==
    dependency_analyzer.external_dependencies
        \cap Nodes(dependency_analyzer.dependency_graph) = {}

(***************************************************************************)
(* C5  Orphan correctness: after every call that returns a result, a node  *)
(* is in orphaned_modules exactly when no edge enters it and no edge       *)
(* leaves it (a self-loop is both); nothing else is in the list, and a     *)
(* graph without nodes has an empty list.                                  *)
(***************************************************************************)
C5_OrphanCorrect ==
    Analyzed =>
        LET G == dep_result.graph
            orphans == Range(dep_result.orphaned_modules)
        IN  /\ orphans \subseteq Nodes(G)
            /\ \A n \in Nodes(G) :
                    n \in orphans <=> ~\E e \in Edges(G) : e[1] = n \/ e[2] = n
            /\ Nodes(G) = {} => dep_result.orphaned_modules = <<>>

\* a result with an orphan, a node whose only edge is its self-loop, and a
\* node with incoming edges only, none of the latter two listed
C5_Witness ==
    /\ Analyzed
    /\ dep_result.orphaned_modules # <<>>
    /\ \E n \in Nodes(dep_result.graph) :
            /\ <<n, n>> \in Edges(dep_result.graph)
            /\ n \notin Range(dep_result.orphaned_modules)
    /\ \E n \in Nodes(dep_result.graph) :
            /\ out_degree(dep_result.graph, n) = 0
            /\ in_degree(dep_result.graph, n) > 0
            /\ n \notin Range(dep_result.orphaned_modules)

(***************************************************************************)
(* C6  Cycle enumeration: circular_dependencies lists the simple cycles    *)
(* of the built graph and nothing else, each once up to rotation.  When    *)
(* the graph built is A -> B, B -> C, C -> A the list holds one cycle,     *)
(* rotation-equivalent to [A, B, C]; a graph without cycles gives an       *)
(* empty list with the success message.                                    *)
(***************************************************************************)
C6_CyclesAreTheSimpleCycles ==
    Analyzed =>
        LET G == dep_result.graph
            cycles == dep_result.circular_dependencies
        IN  /\ \A i \in 1..Len(cycles) : IsSimpleCycle(G, cycles[i])
            /\ \A c \in AllSimpleCycles(G) :
                    Cardinality({i \in 1..Len(cycles) :
                                    RotationEquivalent(cycles[i], c)}) = 1
            /\ Edges(G) = Triangle =>
                    /\ Len(cycles) = 1
                    /\ RotationEquivalent(cycles[1], <<"A", "B", "C">>)
            /\ AllSimpleCycles(G) = {} => (cycles = <<>> /\ dep_msg = MsgAnalyzed)

\* the three modules import each other in a ring and nothing else
C6_Witness ==
    /\ Analyzed
    /\ Edges(dep_result.graph) = Triangle
    /\ Len(dep_result.circular_dependencies) = 1

(***************************************************************************)
(* C7  Self-import: when a successfully parsed module a holds an import    *)
(* whose module string is a, the graph has the edge a -> a,                *)
(* circular_dependencies holds the cycle [a], and a is not in              *)
(* orphaned_modules.                                                       *)
(***************************************************************************)
SelfImporting(i) ==
    \E k \in 1..Len(ImportEntries(Entries[i].data)) :
        ImportEntries(Entries[i].data)[k].module = Stem(Entries[i].path)

C7_SelfImport ==
    Analyzed =>
        \A i \in SuccessfulEntries :
            SelfImporting(i) =>
                LET a == Stem(Entries[i].path) IN
                /\ <<a, a>> \in Edges(dep_result.graph)
                /\ \E j \in 1..Len(dep_result.circular_dependencies) :
                        dep_result.circular_dependencies[j] = <<a>>
                /\ a \notin Range(dep_result.orphaned_modules)

C7_Witness ==
    /\ Analyzed
    /\ \E i \in SuccessfulEntries : SelfImporting(i)

(***************************************************************************)
(* C8  Partial-failure isolation: when files under the root fail to read   *)
(* or parse, parse_project still reports success, every failed file is     *)
(* recorded with parsing_successful = False and an error, every other      *)
(* supported file has a full record, and the graph built from the result   *)
(* has nodes for successfully parsed files only; an import that names the  *)
(* stem of a failed file (and of no parsed one) is classified external.    *)
(***************************************************************************)
FullRecordKeys == {"parsing_successful", "functions", "classes", "imports",
                   "source_lines", "source_code"}

SomeFileFails ==
    /\ root.kind = "dir"
    /\ \E k \in 1..Len(root.files) :
            /\ Supported(root.files[k])
            /\ ~(root.files[k].readable /\ root.files[k].valid)

C8_PartialFailureIsolation ==
    (Parsed /\ SomeFileFails) =>
        /\ parse_msg = MsgParsed
        /\ \A k \in 1..Len(root.files) :
              Supported(root.files[k]) =>
                \E i \in 1..Len(Entries) :
                    /\ Entries[i].path = root.files[k].path
                    /\ IF root.files[k].readable /\ root.files[k].valid
                       THEN /\ Entries[i].data.parsing_successful
                            /\ Entries[i].data.keys = FullRecordKeys
                       ELSE /\ ~Entries[i].data.parsing_successful
                            /\ "error" \in Entries[i].data.keys
        /\ Analyzed =>
            LET parsedStems == {Stem(Entries[i].path) : i \in SuccessfulEntries} IN
            /\ Nodes(dep_result.graph) \subseteq parsedStems
            /\ \A f \in FailedEntries : \A i \in SuccessfulEntries :
                 \A k \in 1..Len(ImportEntries(Entries[i].data)) :
                    LET m == ImportEntries(Entries[i].data)[k].module IN
                    (m = Stem(Entries[f].path) /\ m \notin parsedStems)
                        => m \in dep_result.external_dependencies

(***************************************************************************)
(* C9  Directory-level failure is reported: when the root is missing or    *)
(* cannot be walked, parse_project returns the failure message with an     *)
(* empty result, which tells the outcome from that of an existing          *)
(* directory without files.                                                *)
(***************************************************************************)
C9_DirectoryFailureReported ==
    (Parsed /\ root.kind # "dir") =>
        /\ parse_msg = MsgParseError
        /\ parsing_results = EmptyDict
        /\ parse_project(Dir(<<>>)) # [results |-> parsing_results, msg |-> parse_msg]

(***************************************************************************)
(* C10  Empty input: a run over a directory that is empty or holds only    *)
(* unsupported files gives no node, no edge, an empty external set, an     *)
(* empty cycle list, an empty orphan list and the success messages of      *)
(* parse_project and analyze_import_relationships, whatever the analyzer   *)
(* ran before.                                                             *)
(***************************************************************************)
EmptyInput ==
    /\ root.kind = "dir"
    /\ \A k \in 1..Len(root.files) : ~Supported(root.files[k])

C10_EmptyInput ==
    (Analyzed /\ EmptyInput) =>
        /\ parse_msg = MsgParsed
        /\ dep_msg = MsgAnalyzed
        /\ dep_result.graph.nodes = <<>>
        /\ Edges(dep_result.graph) = {}
        /\ dep_result.external_dependencies = {}
        /\ dep_result.circular_dependencies = <<>>
        /\ dep_result.orphaned_modules = <<>>

(***************************************************************************)
(* C11.  Determinism: for the records of the current run, the call that   *)
(* was made on the shared analyzer, a call on a new analyzer and a second  *)
(* call on the same analyzer all return the same node set, the same set of *)
(* (source, target, attributes) edges and the same external set.           *)
(***************************************************************************)
NodeSet(result) == Nodes(result.graph)
EdgeSet(result) ==
    {[source |-> e[1], target |-> e[2], attributes |-> result.graph.edge_attr[e]] :
        e \in Edges(result.graph)}
SameGraphAndExternals(r1, r2) ==
    /\ NodeSet(r1) = NodeSet(r2)
    /\ EdgeSet(r1) = EdgeSet(r2)
    /\ r1.external_dependencies = r2.external_dependencies

C11_Determinism ==
    Analyzed =>
        /\ SameGraphAndExternals(dep_result,
               analyze_import_relationships(dependency_analyzer, parsing_results).result)
        /\ SameGraphAndExternals(dep_result,
               analyze_import_relationships(NewAnalyzer, parsing_results).result)

\* the part of C11 that the code keeps: a second call on the same analyzer
C11_RepeatedCall ==
    Analyzed =>
        SameGraphAndExternals(dep_result,
            analyze_import_relationships(dependency_analyzer, parsing_results).result)

(***************************************************************************)
(* C12.  Module-identity collision: when two successfully parsed files     *)
(* have the same stem, the node's file_path and the module's entry keep    *)
(* the file met first in traversal order, and the result shows the         *)
(* collision: both paths occur in it.                                      *)
(***************************************************************************)
Colliding(i, j) ==
    /\ i \in SuccessfulEntries /\ j \in SuccessfulEntries /\ i < j
    /\ Stem(Entries[i].path) = Stem(Entries[j].path)
FirstOfItsStem(i) == \A h \in SuccessfulEntries : ~Colliding(h, i)
PathsInResult(result) ==
    {result.graph.node_attr[n].file_path : n \in Nodes(result.graph)}
        \cup {result.module_info[n].file_path : n \in DOMAIN result.module_info}

C12_CollisionKeepsFirst ==
    Analyzed =>
        \A i, j \in SuccessfulEntries :
            Colliding(i, j) /\ FirstOfItsStem(i) =>
                /\ dep_result.graph.node_attr[Stem(Entries[i].path)].file_path
                        = Entries[i].path
                /\ dep_result.module_info[Stem(Entries[i].path)].file_path
                        = Entries[i].path
                /\ {Entries[i].path, Entries[j].path} \subseteq PathsInResult(dep_result)

(***************************************************************************)
(* C13.  One node per successfully parsed file: every such file has the    *)
(* node of its stem with its own path, there are as many nodes as          *)
(* successful records, and every node is the module of a successful file   *)
(* of the run (none for a failed file, none for an import target).         *)
(***************************************************************************)
C13_OneNodePerParsedFile ==
    Analyzed =>
        /\ Len(dep_result.graph.nodes) = Cardinality(SuccessfulEntries)
        /\ \A i \in SuccessfulEntries :
                /\ Stem(Entries[i].path) \in Nodes(dep_result.graph)
                /\ dep_result.graph.node_attr[Stem(Entries[i].path)].file_path
                        = Entries[i].path
        /\ \A n \in Nodes(dep_result.graph) :
                \E i \in SuccessfulEntries :
                    dep_result.graph.node_attr[n].file_path = Entries[i].path

(***************************************************************************)
(* C14.  Resolution rule: in every call, an import entry of a successfully *)
(* parsed file whose module is the stem of a successfully parsed file of   *)
(* the run gets the edge from the importing module to that module and      *)
(* adds nothing to the external set; any other entry (a package-qualified  *)
(* name such as pkg.A too) adds no edge and puts its module, as written,   *)
(* into the external set.  The call adds no other edge and no other name.  *)
(***************************************************************************)
Stems == {Stem(Entries[i].path) : i \in SuccessfulEntries}
ImportsOfRun ==
    UNION {{[source |-> Stem(Entries[i].path), module |-> e.module] :
                e \in Range(ImportEntries(Entries[i].data))} :
            i \in SuccessfulEntries}
ResolvedImports == {imp \in ImportsOfRun : imp.module \in Stems}
UnresolvedImports == ImportsOfRun \ ResolvedImports

C14_ResolutionRule ==
    [][AnalyzeImportRelationships =>
        LET before == dependency_analyzer
            after == dependency_analyzer'
            added == Edges(after.dependency_graph) \ Edges(before.dependency_graph)
        IN  /\ \A imp \in ResolvedImports :
                    /\ <<imp.source, imp.module>> \in Edges(after.dependency_graph)
                    /\ imp.module \in after.external_dependencies
                            => imp.module \in before.external_dependencies
            /\ \A imp \in UnresolvedImports :
                    /\ <<imp.source, imp.module>> \notin added
                    /\ imp.module \in after.external_dependencies
            /\ added \subseteq {<<imp.source, imp.module>> : imp \in ResolvedImports}
            /\ after.external_dependencies =
                    before.external_dependencies
                        \cup {imp.module : imp \in UnresolvedImports}
    ]_vars

\* a run whose records import B, a file of the run, and pkg.A, whose last
\* component is a file of the run
C14_Witness ==
    /\ Analyzed
    /\ {"A", "B"} \subseteq Stems
    /\ [source |-> "A", module |-> "B"] \in ImportsOfRun
    /\ [source |-> "A", module |-> "pkg.A"] \in ImportsOfRun
    /\ <<"A", "B">> \in Edges(dep_result.graph)
    /\ "pkg.A" \in dep_result.external_dependencies

(***************************************************************************)
(* C15.  Round trip: the nodes (id with file_path, functions, classes,     *)
(* source_lines) and the edges (source, target with import_type,           *)
(* line_number, imported_name, alias) read back from the exported JSON     *)
(* are those of the graph in memory.                                      *)
(***************************************************************************)
NodeKeys == {"file_path", "functions", "classes", "source_lines"}
GraphNodes(G) == {[id |-> n, attributes |-> G.node_attr[n]] : n \in Nodes(G)}
GraphEdges(G) == EdgeSet([graph |-> G])
ParsedBackNodes(doc) ==
    {[id |-> n.id,
      attributes |-> [keys |-> NodeKeys, file_path |-> n.file_path,
                      functions |-> n.functions, classes |-> n.classes,
                      source_lines |-> n.source_lines]] :
        n \in Range(json_load(doc).nodes)}
ParsedBackEdges(doc) ==
    {[source |-> e.source, target |-> e.target,
      attributes |-> [import_type |-> e.import_type,
                      line_number |-> e.line_number,
                      imported_name |-> e.imported_name,
                      alias |-> e.alias]] :
        e \in Range(json_load(doc).edges)}

C15_RoundTrip ==
    JsonWritten =>
        /\ ParsedBackNodes(artifacts.json) = GraphNodes(dependency_analyzer.dependency_graph)
        /\ ParsedBackEdges(artifacts.json) = GraphEdges(dependency_analyzer.dependency_graph)

\* C15 as the code has it: the edges read back are those in memory with
\* imported_name '' where the edge in memory has no imported_name
WithBlankImportedName(edge) ==
    IF edge.attributes.imported_name = Absent
    THEN [edge EXCEPT !.attributes.imported_name = ""] ELSE edge

C15_RoundTripUpToBlankName ==
    JsonWritten =>
        /\ ParsedBackNodes(artifacts.json) = GraphNodes(dependency_analyzer.dependency_graph)
        /\ ParsedBackEdges(artifacts.json) =
                {WithBlankImportedName(e) :
                    e \in GraphEdges(dependency_analyzer.dependency_graph)}

\* an export of a graph with an edge without imported_name, an edge with
\* one, an edge with an alias and an edge without
C15_Witness ==
    /\ JsonWritten
    /\ \E e, f, g, h \in GraphEdges(dependency_analyzer.dependency_graph) :
            /\ e.attributes.imported_name = Absent
            /\ f.attributes.imported_name \notin {Absent, ""}
            /\ g.attributes.alias # None
            /\ h.attributes.alias = None

(***************************************************************************)
(* C16.  Every element of the external set is a string, in the result      *)
(* that is returned and in the JSON that is exported, also when a record   *)
(* has a from-import without module (from . import x).  The model keeps    *)
(* list(set) as a set, so no element can appear twice.                     *)
(***************************************************************************)
C16_ExternalsAreStrings ==
    /\ Analyzed => \A x \in dep_result.external_dependencies : x # None
    /\ JsonWritten => \A x \in artifacts.json.external_dependencies : x # JsonNull

(***************************************************************************)
(* C17.  Summary counts: in every result total_dependencies is the number  *)
(* of edges of the returned graph, total_modules the number of its nodes,  *)
(* and external_count, circular_count and orphaned_count are the sizes of  *)
(* the returned external set, cycle list and orphan list.                  *)
(***************************************************************************)
C17_SummaryCounts ==
    Analyzed =>
        /\ dep_result.summary.total_dependencies = Cardinality(Edges(dep_result.graph))
        /\ dep_result.summary.total_modules = Cardinality(Nodes(dep_result.graph))
        /\ dep_result.summary.external_count
                = Cardinality(dep_result.external_dependencies)
        /\ dep_result.summary.circular_count = Len(dep_result.circular_dependencies)
        /\ dep_result.summary.orphaned_count = Len(dep_result.orphaned_modules)

\* the four counts that are taken from the returned collections themselves
C17_OtherCounts ==
    Analyzed =>
        /\ dep_result.summary.total_modules = Cardinality(Nodes(dep_result.graph))
        /\ dep_result.summary.external_count
                = Cardinality(dep_result.external_dependencies)
        /\ dep_result.summary.circular_count = Len(dep_result.circular_dependencies)
        /\ dep_result.summary.orphaned_count = Len(dep_result.orphaned_modules)

(***************************************************************************)
(* C18.  Optional-format isolation: an export in which only the DOT write  *)
(* fails succeeds and returns 'json' and 'adjacency' without 'dot'; an     *)
(* export in which the JSON or the adjacency write (or creating the        *)
(* directory) fails returns None with the error message; and every export  *)
(* that succeeds returns both 'json' and 'adjacency'.                      *)
(***************************************************************************)
MandatoryFault(fault) == fault.makedirs \/ fault.json \/ fault.adjacency

C19_FailedDetectionReturnsEmpty ==
    [][\A fault \in AnalysisFaults :
        AnalyzeWithFaults(fault) =>
            /\ dep_msg' = MsgAnalyzed
            /\ dep_result'.graph =
                    analyze_import_relationships(dependency_analyzer,
                                                 parsing_results).result.graph
            /\ fault.cycles => dep_result'.circular_dependencies = <<>>
            /\ fault.orphans => dep_result'.orphaned_modules = <<>>
    ]_vars

\* the part of C19 that the code keeps: the result and its graph
C19_GraphStillReturned ==
    [][\A fault \in AnalysisFaults :
        AnalyzeWithFaults(fault) =>
            /\ dep_msg' = MsgAnalyzed
            /\ dep_result'.graph =
                    analyze_import_relationships(dependency_analyzer,
                                                 parsing_results).result.graph
    ]_vars

(***************************************************************************)
(* C20.  Error surface: every stage operation returns a pair (result,      *)
(* message) on every path, so that analyze_codebase unpacks every return   *)
(* without raising, also when no file was parsed.                          *)
(***************************************************************************)
C20_EveryStageReturnsPair ==
    /\ Parsed => parse_msg \in {MsgParsed, MsgParseError}
    /\ Analyzed => dep_msg = MsgAnalyzed
    /\ \A i \in 1..Len(stage_returns) :
            stage_returns[i].pair /\ stage_returns[i].msg # None
    /\ outcome # MsgRunFailed

\* the stage operations other than create_metrics_dashboard do
C20_OtherStagesReturnPairs ==
    /\ Parsed => parse_msg \in {MsgParsed, MsgParseError}
    /\ Analyzed => dep_msg = MsgAnalyzed
    /\ \A i \in 1..Len(stage_returns) :
            stage_returns[i].name # "Metrics Charts" =>
                stage_returns[i].pair /\ stage_returns[i].msg # None

(***************************************************************************)
(* C21.  Extraction completeness: the record of a file that parses lists   *)
(* every function definition of the file (top-level or nested, def or      *)
(* async def), every class definition, and every plain and from-import     *)
(* with its line number.                                                   *)
(***************************************************************************)
FilesOfRoot == Range(OsWalk(root))
StatementsOf(file, kinds) == {n \in Range(AstWalk(file.body)) : n.kind \in kinds}
Named(entries) == {[name |-> e.name, lineno |-> e.lineno] : e \in Range(entries)}
ImportLines(entries) == {[module |-> e.module, line |-> e.line] : e \in Range(entries)}

ClassesAndImportsComplete(file, data) ==
    /\ Named(data.classes) =
            {[name |-> n.name, lineno |-> n.lineno] : n \in StatementsOf(file, {"ClassDef"})}
    /\ ImportLines(data.imports.standard_imports) =
            UNION {{[module |-> n.names[k].name, line |-> n.lineno] :
                        k \in 1..Len(n.names)} : n \in StatementsOf(file, {"Import"})}
    /\ ImportLines(data.imports.from_imports) =
            UNION {{[module |-> n.module, line |-> n.lineno] :
                        k \in 1..Len(n.names)} : n \in StatementsOf(file, {"ImportFrom"})}

C21_ExtractionComplete ==
    Parsed =>
        \A i \in SuccessfulEntries : \A file \in FilesOfRoot :
            file.path = Entries[i].path =>
                /\ Named(Entries[i].data.functions) =
                        {[name |-> n.name, lineno |-> n.lineno] :
                            n \in StatementsOf(file, {"FunctionDef", "AsyncFunctionDef"})}
                /\ ClassesAndImportsComplete(file, Entries[i].data)

\* the part of C21 that the code keeps: def functions, classes and imports
C21_AllButAsyncComplete ==
    Parsed =>
        \A i \in SuccessfulEntries : \A file \in FilesOfRoot :
            file.path = Entries[i].path =>
                /\ Named(Entries[i].data.functions) =
                        {[name |-> n.name, lineno |-> n.lineno] :
                            n \in StatementsOf(file, {"FunctionDef"})}
                /\ ClassesAndImportsComplete(file, Entries[i].data)

(***************************************************************************)
(* C22.  Edge attributes are well formed: in every state of the graph an   *)
(* edge has import_type standard or from_import, has an imported_name      *)
(* only when it is a from_import, and after a call the attributes of an    *)
(* edge between modules of the run are those of one import entry of the    *)
(* source module.                                                          *)
(***************************************************************************)
EntryAttributes(data) ==
    {StandardAttr(e) : e \in Range(data.imports.standard_imports)}
        \cup {FromAttr(e) : e \in Range(data.imports.from_imports)}

C22_EdgeAttributesWellFormed ==
    LET G == dependency_analyzer.dependency_graph IN
    \A e \in Edges(G) :
        /\ G.edge_attr[e].import_type \in {"standard", "from_import"}
        /\ G.edge_attr[e].imported_name # Absent
                => G.edge_attr[e].import_type = "from_import"
        /\ Analyzed /\ e[1] \in Stems /\ e[2] \in Stems =>
                \E i \in SuccessfulEntries :
                    /\ Stem(Entries[i].path) = e[1]
                    /\ G.edge_attr[e] \in EntryAttributes(Entries[i].data)

\* the part of C22 that the code keeps: the import_type of every edge
C22_ImportTypeKnown ==
    \A e \in Edges(dependency_analyzer.dependency_graph) :
        dependency_analyzer.dependency_graph.edge_attr[e].import_type
            \in {"standard", "from_import"}

(***************************************************************************)
(* C23.  The export holds the derived properties verbatim: the external    *)
(* dependencies (as a set), the cycles and the orphans (as lists) read     *)
(* from the exported JSON are those the last analyze_import_relationships  *)
(* call returned, and the exported nodes and edges are the nodes and edges *)
(* of the graph that call returned.                                        *)
(***************************************************************************)
C23_ExportVerbatim ==
    JsonWritten =>
        LET doc == json_load(artifacts.json) IN
        /\ doc.external_dependencies = dep_result.external_dependencies
        /\ doc.circular_dependencies = dep_result.circular_dependencies
        /\ doc.orphaned_modules = dep_result.orphaned_modules
        /\ {n.id : n \in Range(doc.nodes)} = Nodes(dep_result.graph)
        /\ Len(doc.nodes) = Len(dep_result.graph.nodes)
        /\ {<<e.source, e.target>> : e \in Range(doc.edges)} = Edges(dep_result.graph)
        /\ Len(doc.edges) = Cardinality(Edges(dep_result.graph))

\* an export after a call that returned a cycle, an orphan, an edge and
\* external dependencies, a None among them
C23_Witness ==
    /\ JsonWritten
    /\ Analyzed
    /\ dep_result.circular_dependencies # <<>>
    /\ dep_result.orphaned_modules # <<>>
    /\ None \in dep_result.external_dependencies
    /\ Cardinality(dep_result.external_dependencies) > 1
    /\ Edges(dep_result.graph) # {}

(***************************************************************************)
(* C24.  Order independence: for every call, the same records in any       *)
(* other iteration order give the same nodes, the same edges and the same  *)
(* external names; an import of a module whose file comes later in the     *)
(* order is an edge and not an external name.  When no two files share a   *)
(* stem the attributes of the nodes and edges are the same as well.        *)
(***************************************************************************)
Orders(n) == {f \in [1..n -> 1..n] : \A i, j \in 1..n : f[i] = f[j] => i = j}
Reordered(results, order) ==
    [results EXCEPT !.parsed_files = [i \in 1..Len(@) |-> @[order[i]]]]
StemsDistinct ==
    \A i, j \in SuccessfulEntries : Stem(Entries[i].path) = Stem(Entries[j].path) => i = j
ImportsLaterFile(i) ==
    \E j \in SuccessfulEntries :
        /\ i < j
        /\ \E e \in Range(ImportEntries(Entries[i].data)) :
                e.module = Stem(Entries[j].path)

C24_OrderIndependent ==
    [][AnalyzeImportRelationships =>
        /\ \A order \in Orders(Len(Entries)) :
                LET other == analyze_import_relationships(dependency_analyzer,
                                Reordered(parsing_results, order)).result
                IN  /\ Nodes(other.graph) = Nodes(dep_result'.graph)
                    /\ Edges(other.graph) = Edges(dep_result'.graph)
                    /\ other.external_dependencies = dep_result'.external_dependencies
                    /\ StemsDistinct =>
                            /\ other.graph.node_attr = dep_result'.graph.node_attr
                            /\ other.graph.edge_attr = dep_result'.graph.edge_attr
        /\ \A i \in SuccessfulEntries : \A e \in Range(ImportEntries(Entries[i].data)) :
                e.module \in Stems =>
                    /\ <<Stem(Entries[i].path), e.module>> \in Edges(dep_result'.graph)
                    /\ e.module \in dep_result'.external_dependencies
                            => e.module \in dependency_analyzer.external_dependencies
    ]_vars

\* a call over records in which a file imports the module of a file that
\* comes after it, and the import became an edge
C24_Witness ==
    /\ Analyzed
    /\ Len(Entries) >= 3
    /\ \E i \in SuccessfulEntries :
            /\ ImportsLaterFile(i)
            /\ \A e \in Range(ImportEntries(Entries[i].data)) :
                    e.module \in Stems =>
                        <<Stem(Entries[i].path), e.module>> \in Edges(dep_result.graph)

(***************************************************************************)
(* C25.  A failed enumeration is fatal for the run: once parse_project has *)
(* reported a failure, neither the dependency analysis nor any other       *)
(* feature stage is executed in that run, and the run does not end with a  *)
(* success status.                                                         *)
(***************************************************************************)
ParseFailed == parse_msg = MsgParseError

C25_ParseFailureIsFatal ==
    ParseFailed =>
        /\ ~Analyzed
        /\ stage_returns = <<>>
        /\ outcome # MsgComplete

(***************************************************************************)
(* C26.  Isolation of concurrent invocations: the dependency result an     *)
(* invocation gets holds only nodes, edges and external dependencies that  *)
(* come from its own parsing_results, however the steps of the two         *)
(* analyze_import_relationships calls interleave.                          *)
(***************************************************************************)
OwnStems(results) ==
    {Stem(e.path) : e \in {e \in Range(EntriesIn(results)) : Successful(e)}}
OwnImports(results) ==
    UNION {{<<Stem(e.path), imp.module>> : imp \in Range(ImportEntries(e.data))} :
            e \in {e \in Range(EntriesIn(results)) : Successful(e)}}

OnlyOwn(call) ==
    /\ Nodes(call.result.graph) \subseteq OwnStems(call.parsing_results)
    /\ Edges(call.result.graph) \subseteq
            {imp \in OwnImports(call.parsing_results) :
                imp[2] \in OwnStems(call.parsing_results)}
    /\ call.result.external_dependencies \subseteq
            {imp[2] : imp \in {imp \in OwnImports(call.parsing_results) :
                                    imp[2] \notin OwnStems(call.parsing_results)}}

C26_ConcurrentIsolation ==
    \A p \in Invocations : calls[p].pc = "returned" => OnlyOwn(calls[p])

(***************************************************************************)
(* C27.  Node attributes: after every call, for every node of the graph,   *)
(* module_info has an entry with the node's file_path and with lists and   *)
(* counts that equal the node's functions, classes and source_lines; and   *)
(* when the records of the call hold a parsed record at the node's         *)
(* file_path, the attributes are the lengths of its functions and classes  *)
(* lists and its source_lines.  Shared stems and earlier runs included.    *)
(***************************************************************************)
NodeMatchesModuleInfo(self, n) ==
    LET attr == self.dependency_graph.node_attr[n] IN
    /\ n \in DOMAIN self.module_info
    /\ self.module_info[n].file_path = attr.file_path
    /\ Len(self.module_info[n].functions) = attr.functions
    /\ Len(self.module_info[n].classes) = attr.classes
    /\ self.module_info[n].metrics =
            [function_count |-> attr.functions, class_count |-> attr.classes,
             source_lines |-> attr.source_lines]

NodeMatchesRecord(self, n, data) ==
    LET attr == self.dependency_graph.node_attr[n] IN
    /\ attr.functions = Len(data.functions)
    /\ attr.classes = Len(data.classes)
    /\ attr.source_lines = data.source_lines

C27_NodeAttributesMatch ==
    Analyzed =>
        \A n \in Nodes(dependency_analyzer.dependency_graph) :
            /\ NodeMatchesModuleInfo(dependency_analyzer, n)
            /\ \A i \in SuccessfulEntries :
                    Entries[i].path = dependency_analyzer.dependency_graph.node_attr[n].file_path
                        => NodeMatchesRecord(dependency_analyzer, n, Entries[i].data)

\* a second run over two files of one stem with definitions, on a graph
\* that holds a node of the first run only
C27_Witness ==
    /\ Analyzed
    /\ runs > 1
    /\ \E i, j \in SuccessfulEntries : Colliding(i, j)
    /\ \E n \in Nodes(dependency_analyzer.dependency_graph) : n \notin Stems
    /\ \E n \in Nodes(dependency_analyzer.dependency_graph) :
            n \in Stems /\ dependency_analyzer.dependency_graph.node_attr[n].functions > 0

(***************************************************************************)
(* C28.  parse_project partitions the files it visits: when it succeeds,   *)
(* every file of the walk is a key of parsed_files or an element of        *)
(* unsupported_files and never both, it is a key of parsed_files exactly   *)
(* when its extension is .py in any case, nothing else is listed, and      *)
(* every value of parsed_files is a full record with parsing_successful    *)
(* true or a record of parsing_successful false and an error only.         *)
(***************************************************************************)
ParsedKeys == {Entries[i].path : i \in 1..Len(Entries)}
Unsupported == Range(Get(parsing_results, "unsupported_files", <<>>))
PythonExtensions == {".py", ".PY"}

C28_ParsePartition ==
    parse_msg = MsgParsed =>
        /\ \A file \in FilesOfRoot :
                /\ (file.path \in ParsedKeys) # (file.path \in Unsupported)
                /\ file.path \in ParsedKeys <=> file.path.ext \in PythonExtensions
        /\ ParsedKeys \cup Unsupported = {file.path : file \in FilesOfRoot}
        /\ \A i, j \in 1..Len(Entries) : Entries[i].path = Entries[j].path => i = j
        /\ \A i \in 1..Len(Entries) :
                \/ /\ Entries[i].data.keys = FullRecordKeys
                   /\ Entries[i].data.parsing_successful
                \/ /\ Entries[i].data.keys = {"parsing_successful", "error"}
                   /\ ~Entries[i].data.parsing_successful
                   /\ Entries[i].data.error # Absent

\* a parse of a tree with a .PY file, an unsupported file, a file that
\* parses and one that does not
C28_Witness ==
    /\ parse_msg = MsgParsed
    /\ \E file \in FilesOfRoot : file.path.ext = ".PY" /\ file.path \in ParsedKeys
    /\ Unsupported # {}
    /\ SuccessfulEntries # {}
    /\ FailedEntries # {}

(***************************************************************************)
(* C29.  No partial output: when export_to_formats has returned (None,     *)
(* error), none of the files of that call is in the output directory.      *)
(***************************************************************************)
ExportFailed == stage = "exported" /\ ~exported.ok

C29_NoPartialOutput == ExportFailed => artifacts.written = {}

\* the part of C29 that the code keeps: a failure before or in the JSON
\* write leaves nothing, a later one leaves the JSON file at least
C29_FailureLeavesNothingOrJson ==
    ExportFailed => artifacts.written \in {{}, {"json"}, {"json", "dot"}}

(***************************************************************************)
(* C30.  Temporary directories: every directory that extract_codebase or   *)
(* clone_repository has made and that still exists is in temp_directories, *)
(* also when the call returned None; and when cleanup_session has returned *)
(* True, temp_directories is empty and none of the directories made so far *)
(* exists.                                                                 *)
(***************************************************************************)
Tracked == Range(helpers.temp_directories)
MadeSoFar == 1..helpers.made

C30_TempDirectoryLifecycle ==
    /\ \A d \in MadeSoFar : d \in helpers.disk => d \in Tracked
    /\ helpers.returned = "True" =>
            /\ helpers.temp_directories = <<>>
            /\ helpers.disk \cap MadeSoFar = {}

\* a cleanup has returned True after several directories were made, one
\* of them by a call that returned None
C30_Witness ==
    /\ helpers.returned = "True"
    /\ helpers.made > 1
    /\ helpers.abandoned # {}
    /\ helpers.abandoned # MadeSoFar

====
